---- MODULE Spec2Model ----
(***************************************************************************)
(* Model of app.py: Room, CostPeriod, Utility and Property, and the cost   *)
(* allocation of Property.calculate_shares.                                *)
(*                                                                         *)
(* Dates are whole days, numbered 1, 2, ...; (a - b).days is a - b.        *)
(* Amounts are exact rationals <<numerator, denominator>> in lowest terms  *)
(* with a positive denominator, so that the division of the code is a      *)
(* division and not a truncation; the rounding of floats is not modelled.  *)
(* A Person is its identity: the same Person may be added to a room, or    *)
(* to several rooms, more than once.                                       *)
(*                                                                         *)
(* last records the most recent call: its arguments, the error it raised   *)
(* (kind, "ok" when it returned) and the mapping it returned.              *)
(***************************************************************************)
EXTENDS Integers, Sequences, FiniteSets, TLC

VARIABLES rooms, common_area, utilities, last

vars == <<rooms, common_area, utilities, last>>

(***************************************************************************)
(* Bounds of the model and the inputs the operations are called with.      *)
(***************************************************************************)
\* the last day of the calendar of SpecUtility
MaxDay == 6
\* the most rooms of a property and the most occupant entries of all its rooms
MaxRooms == 2
MaxOccupants == 2
\* the most utilities of a property
MaxUtilities == 2
\* the last day of the calendar of SpecShares, and of Spec and SpecQuery
MaxShareDay == 3
MaxHouseDay == 4

Persons == {"alice", "bob"}
RoomAreas == {0, 20}
CommonAreas == {0, 40}
Costs == {60, 100}
HouseCosts == {120}
SHARING_TYPES == {"per_person", "per_area", "per_room"}

(***************************************************************************)
(* Rational arithmetic.                                                    *)
(***************************************************************************)
Abs(n) == IF n < 0 THEN -n ELSE n

RECURSIVE GCD(_, _)
GCD(a, b) == IF b = 0 THEN a ELSE GCD(b, a % b)

Norm(n, d) ==
    LET g == GCD(Abs(n), Abs(d))
        s == IF d < 0 THEN -1 ELSE 1
    IN  <<(s * n) \div g, (s * d) \div g>>

Rat(n) == <<n, 1>>
Zero == Rat(0)
RAdd(x, y) == Norm(x[1] * y[2] + y[1] * x[2], x[2] * y[2])
RMul(x, y) == Norm(x[1] * y[1], x[2] * y[2])
RDiv(x, y) == Norm(x[1] * y[2], x[2] * y[1])

(***************************************************************************)
(* Sequences and mappings.                                                 *)
(***************************************************************************)
RECURSIVE SumSeq(_)
SumSeq(s) == IF s = <<>> THEN 0 ELSE Head(s) + SumSeq(Tail(s))

RECURSIVE Concat(_)
Concat(ss) == IF ss = <<>> THEN <<>> ELSE Head(ss) \o Concat(Tail(ss))

\* defaultdict(float): no entries; a missing key reads as 0.0
EmptyShares == [p \in {} |-> Zero]

Get(shares, person) == IF person \in DOMAIN shares THEN shares[person] ELSE Zero

\* shares[person] = value
Assign(shares, person, value) == (person :> value) @@ shares

\* shares[person] += value
AddTo(shares, person, value) == Assign(shares, person, RAdd(Get(shares, person), value))

\* for person in people: shares[person] += value
RECURSIVE AddToEach(_, _, _)
AddToEach(shares, people, value) ==
    IF people = <<>> THEN shares
    ELSE AddToEach(AddTo(shares, Head(people), value), Tail(people), value)

\* for person in people: shares[person] = value
RECURSIVE AssignEach(_, _, _)
AssignEach(shares, people, value) ==
    IF people = <<>> THEN shares
    ELSE AssignEach(Assign(shares, Head(people), value), Tail(people), value)

(***************************************************************************)
(* CostPeriod                                                              *)
(***************************************************************************)
\* CostPeriod.__init__ raises unless start_date < end_date
ValidPeriod(start, end) == start < end

CostPeriod(start, end, cost) == [start |-> start, end |-> end, cost |-> cost]

duration_days(p) == (p.end - p.start) + 1

(***************************************************************************)
(* Utility                                                                 *)
(***************************************************************************)
Utility(sharing_type) == [sharing_type |-> sharing_type, periods |-> <<>>]

\* list.sort(key=lambda p: p.start): a stable sort by start
RECURSIVE InsertByStart(_, _)
InsertByStart(sorted, p) ==
    IF sorted = <<>> THEN <<p>>
    ELSE IF p.start < Head(sorted).start THEN <<p>> \o sorted
    ELSE <<Head(sorted)>> \o InsertByStart(Tail(sorted), p)

RECURSIVE SortByStart(_)
SortByStart(ps) ==
    IF ps = <<>> THEN <<>>
    ELSE InsertByStart(SortByStart(SubSeq(ps, 1, Len(ps) - 1)), ps[Len(ps)])

\* the overlap test with strict comparisons: a shared boundary day goes unnoticed
OverlapsStrict(new_period, existing) ==
    new_period.start < existing.end /\ new_period.end > existing.start

Overlaps(new_period, existing) ==
    new_period.start <= existing.end /\ new_period.end >= existing.start

\* the adjacency test that also takes a gap of two days
AdjacentWithin2(new_period, p) ==
    \/ Abs(new_period.start - p.end) \in {1, 2}
    \/ Abs(p.start - new_period.end) \in {1, 2}

Adjacent(new_period, p) ==
    \/ Abs(new_period.start - p.end) = 1
    \/ Abs(p.start - new_period.end) = 1

\* the error _validate_new_period raises, or "ok"
validate_new_period(periods, new_period) ==
    IF \E i \in 1..Len(periods) : Overlaps(new_period, periods[i])
    THEN "overlap"
    ELSE IF /\ ~ \E i \in 1..Len(periods) : Adjacent(new_period, periods[i])
            /\ periods # <<>>
    THEN "adjacency"
    ELSE "ok"

\* add_cost_period without the sort after the append
add_cost_period_unsorted(periods, new_period) ==
    IF validate_new_period(periods, new_period) = "ok"
    THEN Append(periods, new_period)
    ELSE periods

\* the periods of a utility after add_cost_period(new_period)
add_cost_period(periods, new_period) ==
    IF validate_new_period(periods, new_period) = "ok"
    THEN SortByStart(Append(periods, new_period))
    ELSE periods

(***************************************************************************)
(* Room and Property                                                       *)
(***************************************************************************)
Room(area) == [area |-> area, occupants |-> <<>>]

\* Property._get_occupants: the occupants of all rooms, room by room
get_occupants == Concat([i \in 1..Len(rooms) |-> rooms[i].occupants])

total_private_area == SumSeq([i \in 1..Len(rooms) |-> rooms[i].area])

\* the rooms with at least one occupant, in order
occupied_rooms == SelectSeq(rooms, LAMBDA r : r.occupants # <<>>)

per_person_shares(daily_cost) ==
    LET occupants == get_occupants
        total_people == Len(occupants)
    IN  IF total_people = 0
        THEN [kind |-> "no_occupants", shares |-> EmptyShares]
        ELSE [kind |-> "ok",
              shares |-> AssignEach(EmptyShares, occupants,
                                    RDiv(daily_cost, Rat(total_people)))]

\* the loop over self.rooms that gives every occupant of a room the room's whole
\* share instead of the share divided by the number of its occupants
RECURSIVE private_areas_undivided(_, _, _, _)
private_areas_undivided(i, shares, total_area, daily_cost) ==
    IF i > Len(rooms) THEN shares
    ELSE IF rooms[i].occupants # <<>>
    THEN LET room_share == RMul(RDiv(Rat(rooms[i].area), Rat(total_area)), daily_cost)
         IN  private_areas_undivided(i + 1,
                 AddToEach(shares, rooms[i].occupants, room_share),
                 total_area, daily_cost)
    ELSE private_areas_undivided(i + 1, shares, total_area, daily_cost)

\* the loop over self.rooms of the per_area branch, from room i on
RECURSIVE private_areas(_, _, _, _)
private_areas(i, shares, total_area, daily_cost) ==
    IF i > Len(rooms) THEN shares
    ELSE IF rooms[i].occupants # <<>>
    THEN LET room_share == RMul(RDiv(Rat(rooms[i].area), Rat(total_area)), daily_cost)
             per_person == RDiv(room_share, Rat(Len(rooms[i].occupants)))
         IN  private_areas(i + 1, AddToEach(shares, rooms[i].occupants, per_person),
                           total_area, daily_cost)
    ELSE private_areas(i + 1, shares, total_area, daily_cost)

per_area_shares(daily_cost) ==
    LET occupants == get_occupants
        total_people == Len(occupants)
        total_area == total_private_area + common_area
    IN  IF total_area = 0
        THEN [kind |-> "zero_area", shares |-> EmptyShares]
        ELSE LET private == private_areas(1, EmptyShares, total_area, daily_cost)
             IN  IF common_area > 0
                 THEN IF total_people = 0
                      \* common_share / total_people raises ZeroDivisionError
                      THEN [kind |-> "zero_division", shares |-> EmptyShares]
                      ELSE LET common_share ==
                                   RMul(RDiv(Rat(common_area), Rat(total_area)), daily_cost)
                               per_person_common == RDiv(common_share, Rat(total_people))
                           IN  [kind |-> "ok",
                                shares |-> AddToEach(private, occupants, per_person_common)]
                 ELSE [kind |-> "ok", shares |-> private]

\* the loop over occupied_rooms of the per_room branch
RECURSIVE room_loop(_, _, _)
room_loop(occupied, shares, per_room) ==
    IF occupied = <<>> THEN shares
    ELSE LET room == Head(occupied)
             per_person == RDiv(per_room, Rat(Len(room.occupants)))
         IN  room_loop(Tail(occupied), AddToEach(shares, room.occupants, per_person),
                       per_room)

\* the per_room branch dividing by the number of all rooms, occupied or not
per_room_shares_all_rooms(daily_cost) ==
    IF occupied_rooms = <<>>
    THEN [kind |-> "no_occupied_rooms", shares |-> EmptyShares]
    ELSE [kind |-> "ok",
          shares |-> room_loop(occupied_rooms, EmptyShares,
                               RDiv(daily_cost, Rat(Len(rooms))))]

per_room_shares(daily_cost) ==
    IF occupied_rooms = <<>>
    THEN [kind |-> "no_occupied_rooms", shares |-> EmptyShares]
    ELSE [kind |-> "ok",
          shares |-> room_loop(occupied_rooms, EmptyShares,
                               RDiv(daily_cost, Rat(Len(occupied_rooms))))]

\* Property._calculate_daily_shares: the mapping it returns or the error it raises
calculate_daily_shares(sharing_type, daily_cost) ==
    IF sharing_type = "per_person" THEN per_person_shares(daily_cost)
    ELSE IF sharing_type = "per_area" THEN per_area_shares(daily_cost)
    ELSE per_room_shares(daily_cost)

RECURSIVE MinStart(_)
MinStart(ps) ==
    IF Len(ps) = 1 THEN ps[1].start
    ELSE LET m == MinStart(Tail(ps)) IN IF ps[1].start < m THEN ps[1].start ELSE m

RECURSIVE MaxEnd(_)
MaxEnd(ps) ==
    IF Len(ps) = 1 THEN ps[1].end
    ELSE LET m == MaxEnd(Tail(ps)) IN IF ps[1].end > m THEN ps[1].end ELSE m

\* the coverage validation with coverage_end <= end_date for coverage_end < end_date
validate_utility_coverage_end_inclusive(utility, start_date, end_date) ==
    IF utility.periods = <<>>
    THEN "empty_sequence"
    ELSE IF MinStart(utility.periods) > start_date THEN "coverage_gap"
    ELSE IF MaxEnd(utility.periods) <= end_date THEN "coverage_gap"
    ELSE LET sorted_periods == SortByStart(utility.periods)
         IN  IF \E i \in 2..Len(sorted_periods) :
                    sorted_periods[i].start - sorted_periods[i - 1].end # 1
             THEN "coverage_gap"
             ELSE "ok"

\* Property._validate_utility_coverage: the error it raises, or "ok"
validate_utility_coverage(utility, start_date, end_date) ==
    IF utility.periods = <<>>
    \* min() of an empty sequence raises ValueError
    THEN "empty_sequence"
    ELSE IF MinStart(utility.periods) > start_date THEN "coverage_gap"
    ELSE IF MaxEnd(utility.periods) < end_date THEN "coverage_gap"
    ELSE LET sorted_periods == SortByStart(utility.periods)
         IN  IF \E i \in 2..Len(sorted_periods) :
                    sorted_periods[i].start - sorted_periods[i - 1].end # 1
             THEN "coverage_gap"
             ELSE "ok"

Max(a, b) == IF a > b THEN a ELSE b
Min(a, b) == IF a < b THEN a ELSE b

Skipped(period, start_date, end_date) ==
    period.end < start_date \/ period.start > end_date

days_active(period, start_date, end_date) ==
    (Min(period.end, end_date) - Max(period.start, start_date)) + 1

cost_per_day(period) == RDiv(Rat(period.cost), Rat(duration_days(period)))

\* the accumulation with shares[person] = ... for shares[person] += ...
RECURSIVE accumulate_overwriting(_, _, _, _)
accumulate_overwriting(shares, daily_shares, keys, days) ==
    IF keys = {} THEN shares
    ELSE LET person == CHOOSE x \in keys : TRUE
         IN  accumulate_overwriting(
                 Assign(shares, person, RMul(daily_shares[person], Rat(days))),
                 daily_shares, keys \ {person}, days)

\* for person, daily_share in daily_shares.items(): shares[person] += daily_share * days
RECURSIVE accumulate(_, _, _, _)
accumulate(shares, daily_shares, keys, days) ==
    IF keys = {} THEN shares
    ELSE LET person == CHOOSE x \in keys : TRUE
         IN  accumulate(AddTo(shares, person, RMul(daily_shares[person], Rat(days))),
                        daily_shares, keys \ {person}, days)

\* the loop over utility.periods, from period j on
RECURSIVE period_loop(_, _, _, _, _)
period_loop(utility, j, start_date, end_date, shares) ==
    IF j > Len(utility.periods) THEN [kind |-> "ok", shares |-> shares]
    ELSE LET period == utility.periods[j]
         IN  IF Skipped(period, start_date, end_date)
             THEN period_loop(utility, j + 1, start_date, end_date, shares)
             ELSE LET daily == calculate_daily_shares(utility.sharing_type,
                                                      cost_per_day(period))
                  IN  IF daily.kind # "ok"
                      THEN [kind |-> daily.kind, shares |-> EmptyShares]
                      ELSE period_loop(utility, j + 1, start_date, end_date,
                               accumulate(shares, daily.shares, DOMAIN daily.shares,
                                          days_active(period, start_date, end_date)))

\* the loop over self.utilities, from utility i on; at is the utility that raised
RECURSIVE utility_loop(_, _, _, _)
utility_loop(i, start_date, end_date, shares) ==
    IF i > Len(utilities) THEN [kind |-> "ok", at |-> 0, shares |-> shares]
    ELSE LET coverage == validate_utility_coverage(utilities[i], start_date, end_date)
         IN  IF coverage # "ok"
             THEN [kind |-> coverage, at |-> i, shares |-> EmptyShares]
             ELSE LET done == period_loop(utilities[i], 1, start_date, end_date, shares)
                  IN  IF done.kind # "ok"
                      THEN [kind |-> done.kind, at |-> i, shares |-> EmptyShares]
                      ELSE utility_loop(i + 1, start_date, end_date, done.shares)

\* Property.calculate_shares: the mapping it returns or the error it raises
calculate_shares(start_date, end_date) ==
    utility_loop(1, start_date, end_date, EmptyShares)

(***************************************************************************)
(* The state: a Property, its rooms and utilities, and the last call made. *)
(***************************************************************************)
NoPeriods == <<>>

\* the operation, its utility and dates, the error raised or "ok", the utility
\* calculate_shares raised at, the periods before add_cost_period, the mapping
Call(op, u, start, end, kind, at, before, shares) ==
    [op |-> op, u |-> u, start |-> start, end |-> end,
     kind |-> kind, at |-> at, before |-> before, shares |-> shares]

Returned(op) == Call(op, 0, 0, 0, "ok", 0, NoPeriods, EmptyShares)

\* house.add_room(Room(name, area))
AddRoom(area) ==
    /\ rooms' = Append(rooms, Room(area))
    /\ last' = Returned("add_room")
    /\ UNCHANGED <<common_area, utilities>>

\* room.add_occupant(person), for the r-th room of the property
AddOccupant(r, person) ==
    /\ r \in 1..Len(rooms)
    /\ rooms' = [rooms EXCEPT ![r].occupants = Append(@, person)]
    /\ last' = Returned("add_occupant")
    /\ UNCHANGED <<common_area, utilities>>

\* house.set_common_area(area)
SetCommonArea(area) ==
    /\ common_area' = area
    /\ last' = Returned("set_common_area")
    /\ UNCHANGED <<rooms, utilities>>

\* house.add_utility(Utility(name, sharing_type))
AddUtility(sharing_type) ==
    /\ sharing_type \in SHARING_TYPES
    /\ utilities' = Append(utilities, Utility(sharing_type))
    /\ last' = Returned("add_utility")
    /\ UNCHANGED <<rooms, common_area>>

\* utility.add_cost_period(CostPeriod(start, end, cost)), for the u-th utility
AddCostPeriod(u, start, end, cost) ==
    /\ u \in 1..Len(utilities)
    /\ ValidPeriod(start, end)
    /\ LET new_period == CostPeriod(start, end, cost)
           before == utilities[u].periods
       IN  /\ utilities' = [utilities EXCEPT
                               ![u].periods = add_cost_period(before, new_period)]
           /\ last' = Call("add_cost_period", u, start, end,
                           validate_new_period(before, new_period), 0, before,
                           EmptyShares)
    /\ UNCHANGED <<rooms, common_area>>

\* house.calculate_shares(start_date, end_date)
CalculateShares(start_date, end_date) ==
    /\ \E result \in {calculate_shares(start_date, end_date)} :
           last' = Call("calculate_shares", 0, start_date, end_date,
                        result.kind, result.at, NoPeriods, result.shares)
    /\ UNCHANGED <<rooms, common_area, utilities>>

(***************************************************************************)
(* Spec: the utilities of a furnished property are built and the property  *)
(* is queried. The property is one of Houses: the house of the example     *)
(* usage, that house with its second room unoccupied, a house whose        *)
(* tenant rents both rooms, and an empty property.                         *)
(***************************************************************************)
Days == 1..MaxHouseDay

House(rs, common) == [rooms |-> rs, common_area |-> common]

Houses ==
    { House(<<[area |-> 40, occupants |-> <<"alice">>],
              [area |-> 20, occupants |-> <<"bob">>]>>, 40),
      House(<<[area |-> 40, occupants |-> <<"alice", "bob">>],
              [area |-> 20, occupants |-> <<>>]>>, 40),
      House(<<[area |-> 40, occupants |-> <<"alice">>],
              [area |-> 20, occupants |-> <<"alice">>]>>, 0),
      House(<<>>, 0) }

InitHouse ==
    /\ \E house \in Houses : rooms = house.rooms /\ common_area = house.common_area
    /\ utilities = <<>>
    /\ last = Returned("Property")

Next ==
    \/ \E sharing_type \in SHARING_TYPES :
           Len(utilities) < MaxUtilities /\ AddUtility(sharing_type)
    \/ \E u \in 1..MaxUtilities, start \in Days, end \in Days, cost \in HouseCosts :
           AddCostPeriod(u, start, end, cost)
    \/ \E start_date \in Days, end_date \in Days :
           start_date <= end_date /\ CalculateShares(start_date, end_date)

Spec == InitHouse /\ [][Next]_vars

(***************************************************************************)
(* SpecQuery: a furnished property with one or two utilities, each built   *)
(* by add_cost_period before it was added to the property, is queried.     *)
(***************************************************************************)
\* the periods a utility can hold after at most n calls of add_cost_period
RECURSIVE Timelines(_)
Timelines(n) ==
    IF n = 0 THEN {NoPeriods}
    ELSE LET built == Timelines(n - 1)
         IN  built \cup
             {add_cost_period(x[1], CostPeriod(x[2], x[3], x[4])) :
                  x \in {y \in built \X Days \X Days \X HouseCosts :
                             ValidPeriod(y[2], y[3])}}

BuiltUtilities ==
    {[sharing_type |-> sharing_type, periods |-> periods] :
         sharing_type \in SHARING_TYPES, periods \in Timelines(MaxHouseDay \div 2)}

InitQuery ==
    /\ \E house \in Houses : rooms = house.rooms /\ common_area = house.common_area
    /\ \/ \E a \in BuiltUtilities : utilities = <<a>>
       \/ \E a \in BuiltUtilities, b \in BuiltUtilities : utilities = <<a, b>>
    /\ last = Returned("add_utility")

NextQuery ==
    \E start_date \in Days, end_date \in Days :
        start_date <= end_date /\ CalculateShares(start_date, end_date)

SpecQuery == InitQuery /\ [][NextQuery]_vars

(***************************************************************************)
(* SpecShares: the rooms, occupants and common area of a property are      *)
(* built through the operations and the property is queried. Its one       *)
(* utility has one period, from the first to the last day of the calendar. *)
(***************************************************************************)
ShareDays == 1..MaxShareDay

InitShares ==
    /\ rooms = <<>>
    /\ common_area = 0
    /\ \E sharing_type \in SHARING_TYPES, cost \in Costs :
           utilities = <<[sharing_type |-> sharing_type,
                          periods |-> add_cost_period(<<>>,
                                          CostPeriod(1, MaxShareDay, cost))]>>
    /\ last = Returned("add_utility")

NextShares ==
    \/ \E area \in RoomAreas : Len(rooms) < MaxRooms /\ AddRoom(area)
    \/ \E r \in 1..MaxRooms, person \in Persons :
           Len(get_occupants) < MaxOccupants /\ AddOccupant(r, person)
    \/ \E area \in CommonAreas : SetCommonArea(area)
    \/ \E start_date \in ShareDays, end_date \in ShareDays :
           start_date <= end_date /\ CalculateShares(start_date, end_date)

SpecShares == InitShares /\ [][NextShares]_vars

(***************************************************************************)
(* SpecUtility: one Utility of an empty property, over a longer calendar.  *)
(***************************************************************************)
UtilityDays == 1..MaxDay

InitUtility ==
    /\ rooms = <<>>
    /\ common_area = 0
    /\ \E sharing_type \in SHARING_TYPES : utilities = <<Utility(sharing_type)>>
    /\ last = Returned("add_utility")

NextUtility ==
    \/ \E start \in UtilityDays, end \in UtilityDays, cost \in Costs :
           AddCostPeriod(1, start, end, cost)
    \/ \E start_date \in UtilityDays, end_date \in UtilityDays :
           start_date <= end_date /\ CalculateShares(start_date, end_date)

SpecUtility == InitUtility /\ [][NextUtility]_vars

(***************************************************************************)
(* Properties of Utility.add_cost_period (SpecUtility).                    *)
(***************************************************************************)
LastAdd == last.op = "add_cost_period"

\* the periods of the utility of the last add_cost_period, after the call
After == utilities[last.u].periods

\* the new period shares at least one day with the existing period p
SharesADay(p) == last.start <= p.end /\ last.end >= p.start

OverlapsSome == \E i \in 1..Len(last.before) : SharesADay(last.before[i])

\* exactly one day lies between the new period and the existing period p
OneDayApart(p) == last.start - p.end = 1 \/ p.start - last.end = 1

Inserted ==
    /\ Len(After) = Len(last.before) + 1
    /\ \E i \in 1..Len(After) :
           /\ After[i].start = last.start
           /\ After[i].end = last.end
           /\ \A j \in 1..Len(last.before) :
                  last.before[j] = After[IF j < i THEN j ELSE j + 1]

\* C1: add_cost_period of a period that shares at least one day with an existing
\* period fails with the overlap error and leaves the periods as they were.
C1_OverlapRejected ==
    (LastAdd /\ OverlapsSome) => (last.kind = "overlap" /\ After = last.before)

\* C1 witness: a new period whose first day is the last day of an existing period
\* was rejected.
C1_Witness ==
    /\ LastAdd
    /\ \E i \in 1..Len(last.before) : last.start = last.before[i].end
    /\ last.kind = "overlap"

\* C2: a period that overlaps no existing period is accepted by an empty utility;
\* by a non-empty one it is accepted exactly when it lies one day before or after
\* some existing period, and is otherwise rejected with the adjacency error, the
\* periods staying as they were.
C2_AdjacencyRule ==
    (LastAdd /\ ~OverlapsSome) =>
        /\ last.before = <<>> => last.kind = "ok"
        /\ last.before # <<>> =>
               (last.kind = "ok" <=>
                    \E i \in 1..Len(last.before) : OneDayApart(last.before[i]))
        /\ last.kind = "ok" => Inserted
        /\ last.kind # "ok" => (last.kind = "adjacency" /\ After = last.before)

\* C2 witness: a period starting two days after the end of the only existing
\* period was rejected.
C2_Witness ==
    /\ LastAdd
    /\ Len(last.before) = 1
    /\ last.start - last.before[1].end = 2
    /\ last.kind = "adjacency"

\* C3: the periods of every utility are sorted by start date, pairwise
\* non-overlapping, and each starts on the day after the previous one ends.
C3_ContiguousTimeline ==
    \A u \in 1..Len(utilities) :
        LET ps == utilities[u].periods
        IN  /\ \A i, j \in 1..Len(ps) : i < j => ps[i].start <= ps[j].start
            /\ \A i, j \in 1..Len(ps) :
                   i # j => (ps[i].end < ps[j].start \/ ps[j].end < ps[i].start)
            /\ \A i \in 2..Len(ps) : ps[i].start - ps[i - 1].end = 1

\* C3 witness: a third period was added in front of the two existing ones.
C3_Witness ==
    /\ LastAdd
    /\ last.kind = "ok"
    /\ Len(After) = 3
    /\ After[1].start = last.start

(***************************************************************************)
(* Properties of the distribution of a daily cost (SpecShares).            *)
(***************************************************************************)
LastCalc == last.op = "calculate_shares"

Range(s) == {s[i] : i \in 1..Len(s)}

\* the sum of the values of a mapping over a set of its keys, and over all keys
RECURSIVE SumOver(_, _)
SumOver(shares, keys) ==
    IF keys = {} THEN Zero
    ELSE LET k == CHOOSE x \in keys : TRUE
         IN  RAdd(shares[k], SumOver(shares, keys \ {k}))

SumValues(shares) == SumOver(shares, DOMAIN shares)

\* the days of the query window and of a period
Window == last.start..last.end
DaysOf(p) == p.start..p.end

Earliest(ps) == CHOOSE d \in {ps[i].start : i \in 1..Len(ps)} :
                    \A i \in 1..Len(ps) : d <= ps[i].start
Latest(ps) == CHOOSE d \in {ps[i].end : i \in 1..Len(ps)} :
                  \A i \in 1..Len(ps) : d >= ps[i].end

\* the periods of utility u that have a day in the window
Active(u) == {j \in 1..Len(utilities[u].periods) :
                  DaysOf(utilities[u].periods[j]) \cap Window # {}}

ActiveDays(p) == Cardinality(DaysOf(p) \cap Window)

Rate(p) == Norm(p.cost, Cardinality(DaysOf(p)))

\* the sum over the active periods of utility u of cost_per_day * days_active
WindowCost(u) ==
    SumValues([j \in Active(u) |->
                  RMul(Rate(utilities[u].periods[j]),
                       Rat(ActiveDays(utilities[u].periods[j])))])

Occupants == UNION {Range(rooms[i].occupants) : i \in 1..Len(rooms)}
NumOccupants == SumSeq([i \in 1..Len(rooms) |-> Len(rooms[i].occupants)])
Occupied == {i \in 1..Len(rooms) : rooms[i].occupants # <<>>}
OccupiedArea == SumSeq([i \in 1..Len(rooms) |->
                           IF i \in Occupied THEN rooms[i].area ELSE 0])
TotalArea == SumSeq([i \in 1..Len(rooms) |-> rooms[i].area]) + common_area

\* the last call was a successful query of a property with utility 1 alone,
\* of the given sharing type
Shared(sharing_type) ==
    /\ LastCalc
    /\ last.kind = "ok"
    /\ Len(utilities) = 1
    /\ utilities[1].sharing_type = sharing_type

\* C5 as claimed: under per_area sharing the occupants' shares sum to the full
\* cost_per_day * days_active, for every property with a total area above zero
\* and at least one occupant.
C5_PerAreaConserves ==
    (Shared("per_area") /\ TotalArea > 0 /\ NumOccupants >= 1) =>
        SumValues(last.shares) = WindowCost(1)

\* C5 amended: under per_area sharing the occupants' shares sum to
\* cost_per_day * days_active * (area of the occupied rooms + common area) /
\* total area: the part of an unoccupied room is charged to nobody, and the sum
\* is the full cost when no unoccupied room has an area.
C5_PerAreaDistributes ==
    (Shared("per_area") /\ TotalArea > 0 /\ NumOccupants >= 1) =>
        /\ SumValues(last.shares) =
               RMul(WindowCost(1), Norm(OccupiedArea + common_area, TotalArea))
        /\ (\A i \in 1..Len(rooms) : i \notin Occupied => rooms[i].area = 0)
               => SumValues(last.shares) = WindowCost(1)

\* C5 witness: a per_area query of a property with an unoccupied room of an
\* area above zero, a common area above zero and an occupant succeeded.
C5_Witness ==
    /\ Shared("per_area")
    /\ NumOccupants >= 1
    /\ common_area > 0
    /\ \E i \in 1..Len(rooms) : i \notin Occupied /\ rooms[i].area > 0

\* C6: under per_person sharing with N >= 1 occupants in all rooms together,
\* each occupant's share is cost_per_day / N * days_active and the shares sum to
\* cost_per_day * days_active.
C6_PerPersonSplit ==
    (Shared("per_person") /\ NumOccupants >= 1) =>
        /\ \A person \in Occupants :
               Get(last.shares, person) = RDiv(WindowCost(1), Rat(NumOccupants))
        /\ SumValues(last.shares) = WindowCost(1)

\* room i has no occupant who is also an occupant of another room
Exclusive(i) ==
    \A k \in 1..Len(rooms) :
        k # i => Range(rooms[k].occupants) \cap Range(rooms[i].occupants) = {}

Times(person, i) ==
    Cardinality({k \in 1..Len(rooms[i].occupants) : rooms[i].occupants[k] = person})

\* C7: under per_room sharing the cost is divided equally among the occupied
\* rooms and each room's part equally among its occupants: the shares sum to the
\* full cost, the occupants of an occupied room receive together
\* cost / (number of occupied rooms), and only the occupants of occupied rooms
\* receive a share.
C7_PerRoomSplit ==
    Shared("per_room") =>
        /\ Occupied # {}
        /\ SumValues(last.shares) = WindowCost(1)
        /\ DOMAIN last.shares = Occupants
        /\ \A i \in Occupied :
               Exclusive(i) =>
                   /\ SumOver(last.shares, Range(rooms[i].occupants)) =
                          RDiv(WindowCost(1), Rat(Cardinality(Occupied)))
                   /\ \A person \in Range(rooms[i].occupants) :
                          last.shares[person] =
                              RMul(RDiv(WindowCost(1), Rat(Cardinality(Occupied))),
                                   Norm(Times(person, i), Len(rooms[i].occupants)))

\* C7 witness: a per_room query of a property with an unoccupied room and a room
\* of two occupants succeeded.
C7_Witness ==
    /\ Shared("per_room")
    /\ \E i \in 1..Len(rooms) : i \notin Occupied
    /\ \E i \in Occupied : Cardinality(Range(rooms[i].occupants)) = 2

ListedErrors == {"coverage_gap", "no_occupants", "zero_area", "no_occupied_rooms"}

\* C9: a query with start < end returns a mapping or fails with the coverage
\* gap, no occupants, zero area or no occupied rooms error, and the distributor
\* fails for a per_area utility only when the total area is zero.
C9_OnlyListedErrors ==
    (LastCalc /\ last.start < last.end) =>
        /\ last.kind \in {"ok"} \cup ListedErrors
        /\ (/\ last.kind \notin {"ok", "coverage_gap"}
            /\ last.at \in 1..Len(utilities)
            /\ utilities[last.at].sharing_type = "per_area") => TotalArea = 0

(***************************************************************************)
(* Properties of the whole query (C4: SpecUtility; C8: SpecQuery; C10:     *)
(* Spec).                                                                  *)
(***************************************************************************)
Spans(ps) == Earliest(ps) <= last.start /\ Latest(ps) >= last.end

\* C4: a query fails with the coverage gap error for a utility with a period
\* whose earliest start is after the window's start or whose latest end is before
\* the window's end (the query fails at that utility or at an earlier one, and at
\* that utility with the coverage gap error); a window inside
\* [earliest start, latest end] passes the coverage validation of the utility.
C4_CoverageRule ==
    LastCalc =>
        \A u \in 1..Len(utilities) :
            LET ps == utilities[u].periods
            IN  ps # <<>> =>
                    /\ ~Spans(ps) =>
                           /\ last.kind # "ok"
                           /\ last.at \in 1..u
                           /\ last.at = u => last.kind = "coverage_gap"
                           /\ u = 1 => last.kind = "coverage_gap"
                    /\ Spans(ps) => ~(last.at = u /\ last.kind = "coverage_gap")

\* C4 witness: a window that starts inside the periods of a utility and ends one
\* day after its last period failed with the coverage gap error at that utility.
C4_Witness ==
    /\ LastCalc
    /\ last.kind = "coverage_gap"
    /\ last.at \in 1..Len(utilities)
    /\ utilities[last.at].periods # <<>>
    /\ Earliest(utilities[last.at].periods) <= last.start
    /\ last.end = Latest(utilities[last.at].periods) + 1

\* every utility has periods and every day of the window is a day of one of them
AllCover ==
    \A u \in 1..Len(utilities) :
        /\ utilities[u].periods # <<>>
        /\ \A d \in Window : \E j \in 1..Len(utilities[u].periods) :
               d \in DaysOf(utilities[u].periods[j])

\* the sum over all utilities of the cost of their active periods
TotalWindowCost == SumValues([u \in 1..Len(utilities) |-> WindowCost(u)])

Distributes(sharing_type) ==
    IF sharing_type = "per_person" THEN NumOccupants >= 1
    ELSE IF sharing_type = "per_room" THEN Occupied # {}
    ELSE TotalArea # 0 /\ (common_area > 0 => NumOccupants >= 1)

\* the part of a daily cost the distributor hands out
Distributed(sharing_type) ==
    IF sharing_type = "per_person" THEN Norm(Cardinality(Occupants), NumOccupants)
    ELSE IF sharing_type = "per_room" THEN Rat(1)
    ELSE Norm(OccupiedArea + common_area, TotalArea)

DistributorErrors == {"no_occupants", "zero_area", "no_occupied_rooms", "zero_division"}

ActivePairs == UNION {{<<u, j>> : j \in Active(u)} : u \in 1..Len(utilities)}

PeriodOf(k) == utilities[k[1]].periods[k[2]]

DailyOf(k) ==
    calculate_daily_shares(utilities[k[1]].sharing_type, Rate(PeriodOf(k))).shares

\* C10: a period is skipped exactly when it ends before the window or starts
\* after it; for the others days_active is the number of days of the period in
\* the window, between 1 and duration_days, the daily rate is cost /
\* duration_days, each occupant's result is the sum over the utilities and their
\* periods not skipped of the daily share at that rate times days_active, and a
\* period inside the window contributes its cost in total under per_person
\* sharing.
C10_ProRata ==
    (LastCalc /\ last.kind = "ok") =>
        /\ \A u \in 1..Len(utilities) : \A j \in 1..Len(utilities[u].periods) :
               LET p == utilities[u].periods[j]
               IN  /\ Skipped(p, last.start, last.end) <=> j \notin Active(u)
                   /\ j \in Active(u) =>
                          /\ days_active(p, last.start, last.end) = ActiveDays(p)
                          /\ ActiveDays(p) \in 1..duration_days(p)
                          /\ cost_per_day(p) = Rate(p)
        /\ \A person \in Persons :
               Get(last.shares, person) =
                   SumValues([k \in ActivePairs |->
                                 RMul(Get(DailyOf(k), person), Rat(ActiveDays(PeriodOf(k))))])
        /\ \A k \in ActivePairs :
               (/\ utilities[k[1]].sharing_type = "per_person"
                /\ DaysOf(PeriodOf(k)) \subseteq Window) =>
                   RMul(SumValues(DailyOf(k)), Rat(ActiveDays(PeriodOf(k)))) =
                       Rat(PeriodOf(k).cost)

====
